---- MODULE Spec2Model ----
(***************************************************************************)
(* Steel Coil Nesting Optimizer: the part table, the run button of App,    *)
(* the grouping step preprocessData, the call to the optimization service  *)
(* made by runOptimization, and the CSV and DXF exports of a result.       *)
(*                                                                         *)
(* Numbers are integers (millimetres, kilograms).  A part's quantity is    *)
(* held in units of 1/QScale so that a quantity that is not an integer can *)
(* be written: the quantity q of the program is quantity / QScale.         *)
(***************************************************************************)
EXTENDS Integers, Sequences, FiniteSets, TLC

VARIABLES
  parts,              \* App state: the part table (a sequence of Part)
  parameters,         \* App state: UserParameters
  errors,             \* App state: part id -> set of fields in error
  optimizationResult, \* App state: NullResult or an OptimizationResult
  isLoading,          \* App state
  apiError,           \* App state: NoError or a message
  materialGroups,     \* the MaterialGroup[] built by the last preprocessData
  grouped,            \* whether preprocessData has been applied
  prompt,             \* the prompt of the last runOptimization, NoPrompt before
  inFlight,           \* the calls of runOptimization that have not settled, in
                      \* the order they started: TRUE marks the latest started
  storedByLatest,     \* whether the call that settled last was the latest started
  previousResult,     \* the result a rerun replaced, NullResult when none
  download            \* the file the last click of an export button produced

vars == <<parts, parameters, errors, optimizationResult, isLoading, apiError,
          materialGroups, grouped, prompt, inFlight, storedByLatest,
          previousResult, download>>

-----------------------------------------------------------------------------
(* Bounds of the model *)

MaxParts == 3

QScale == 2

\* The calls of runOptimization the model lets be in flight at once.
MaxInFlight == 2

-----------------------------------------------------------------------------
(* Values *)

Range(s) == {s[i] : i \in 1..Len(s)}

NoError == "<null>"

NullResult == [isNull |-> TRUE]

NoPrompt == [isNull |-> TRUE]

NoDownload == [isNull |-> TRUE]

\* Rows a user can have typed in the table (without the id).  The first five
\* and the last are valid, the other four break one or more of the rules of
\* validateParts.
PartRows ==
  { [width |-> 1000, length |-> 100, quantity |-> QScale,     thickness |-> 2, grade |-> "SS400", projectName |-> "A"],
    [width |-> 500,  length |-> 100, quantity |-> 2 * QScale, thickness |-> 2, grade |-> "SS400", projectName |-> "A"],
    [width |-> 1000, length |-> 200, quantity |-> QScale,     thickness |-> 2, grade |-> "SS400", projectName |-> "B"],
    [width |-> 1000, length |-> 100, quantity |-> QScale,     thickness |-> 3, grade |-> "SS400", projectName |-> "B"],
    [width |-> 1000, length |-> 100, quantity |-> QScale,     thickness |-> 2, grade |-> "A36",   projectName |-> "B"],
    [width |-> 0,    length |-> 100, quantity |-> QScale,     thickness |-> 2, grade |-> "SS400", projectName |-> "A"],
    [width |-> 0,    length |-> 300, quantity |-> 1,          thickness |-> 2, grade |-> "SS400", projectName |-> "A"],
    [width |-> 500,  length |-> 100, quantity |-> 0,          thickness |-> 0, grade |-> "",      projectName |-> ""],
    [width |-> 500,  length |-> 0,   quantity |-> QScale,     thickness |-> 2, grade |-> "A36",   projectName |-> "B"],
    [width |-> 30,   length |-> 100, quantity |-> QScale,     thickness |-> 3, grade |-> "A36",   projectName |-> "B"] }

PartId(i) == "p" \o ToString(i)

Part(i, row) ==
  [id |-> PartId(i), width |-> row.width, length |-> row.length,
   quantity |-> row.quantity, thickness |-> row.thickness,
   grade |-> row.grade, projectName |-> row.projectName]

PartLists ==
  UNION { { [i \in 1..n |-> Part(i, f[i])] : f \in [1..n -> PartRows] } : n \in 0..MaxParts }

MaxSheetLengths == {100, 200}

initialParameters(maxLen) ==
  [maxSheetLength |-> maxLen,
   kerf |-> 5,
   candidateCoilWidths |-> <<1000, 1500>>,
   rollWeightRange |-> [min |-> 2, max |-> 5],
   algorithm |-> "Standard Simulation"]

-----------------------------------------------------------------------------
(* preprocessData *)

\* A key that leaves the thickness out.
materialKeyGradeOnly(part) == part.grade \o "mm"

\* `${part.grade}_${part.thickness}mm`
materialKey(part) == part.grade \o "_" \o ToString(part.thickness) \o "mm"

\* The flag raised already at length = maxSheetLength.
annotateInclusive(part, maxSheetLength) ==
  [area |-> part.width * part.length,
   exceedsSheetLength |-> part.length >= maxSheetLength] @@ part

\* { ...part, area, exceedsSheetLength: part.length > maxSheetLength }
annotate(part, maxSheetLength) ==
  [area |-> part.width * part.length,
   exceedsSheetLength |-> part.length > maxSheetLength] @@ part

\* The index of the group stored under key, 0 when acc[key] is undefined.
groupIndex(acc, key) ==
  IF \E i \in 1..Len(acc) : acc[i].materialKey = key
  THEN CHOOSE i \in 1..Len(acc) : acc[i].materialKey = key
  ELSE 0

\* One step of the reduce.  acc is the accumulator object, held as the sequence
\* of its values in insertion order: its keys all end in "mm", none is an array
\* index, so Object.values lists them in insertion order.
groupStep(acc, part, maxSheetLength) ==
  LET key      == materialKey(part)
      at       == groupIndex(acc, key)
      withKey  == IF at = 0
                  THEN Append(acc, [materialKey |-> key, thickness |-> part.thickness,
                                    grade |-> part.grade, parts |-> <<>>])
                  ELSE acc
      idx      == IF at = 0 THEN Len(withKey) ELSE at
  IN  [withKey EXCEPT ![idx].parts = Append(@, annotate(part, maxSheetLength))]

RECURSIVE groupParts(_, _, _)
groupParts(partList, n, maxSheetLength) ==
  IF n = 0 THEN <<>>
  ELSE groupStep(groupParts(partList, n - 1, maxSheetLength), partList[n], maxSheetLength)

\* The comparator with the operands of the width test swapped.
comparePartsWidthAscending(a, b) ==
  IF b.width # a.width THEN a.width - b.width
  ELSE IF b.area # a.area THEN b.area - a.area
  ELSE b.length - a.length

\* The comparator of group.parts.sort: negative puts a first.
compareParts(a, b) ==
  IF b.width # a.width THEN b.width - a.width
  ELSE IF b.area # a.area THEN b.area - a.area
  ELSE b.length - a.length

\* An insertion that puts x in front of the elements it ties with.
insertSortedBeforeTies(sorted, x) ==
  LET later == {i \in 1..Len(sorted) : compareParts(sorted[i], x) >= 0}
      pos   == IF later = {} THEN Len(sorted) + 1
               ELSE CHOOSE i \in later : \A j \in later : i <= j
  IN  SubSeq(sorted, 1, pos - 1) \o <<x>> \o SubSeq(sorted, pos, Len(sorted))

\* Array.prototype.sort is stable: x goes before the first element that the
\* comparator orders strictly after it, behind every element it ties with.
insertSorted(sorted, x) ==
  LET later == {i \in 1..Len(sorted) : compareParts(sorted[i], x) > 0}
      pos   == IF later = {} THEN Len(sorted) + 1
               ELSE CHOOSE i \in later : \A j \in later : i <= j
  IN  SubSeq(sorted, 1, pos - 1) \o <<x>> \o SubSeq(sorted, pos, Len(sorted))

RECURSIVE sortParts(_, _)
sortParts(s, n) ==
  IF n = 0 THEN <<>> ELSE insertSorted(sortParts(s, n - 1), s[n])

preprocessData(partList, maxSheetLength) ==
  LET groups == groupParts(partList, Len(partList), maxSheetLength)
  IN  [g \in 1..Len(groups) |->
         [groups[g] EXCEPT !.parts = sortParts(@, Len(@))]]

\* A step of the reduce that writes area and exceedsSheetLength on the part of
\* the caller and pushes that very object.
pushAnnotatedInPlace(heap, ref, maxSheetLength) ==
  [heap EXCEPT ![ref] = annotate(heap[ref], maxSheetLength)]

\* The objects after one step of the reduce.  heap is the sequence of the
\* objects allocated so far, an object being named by its position; the parts
\* of the caller are the first ones.  { ...part, area, exceedsSheetLength } is
\* a new object, and it is the new object that is pushed on group.parts.
pushCopy(heap, ref, maxSheetLength) ==
  Append(heap, annotate(heap[ref], maxSheetLength))

RECURSIVE reduceHeap(_, _, _)
reduceHeap(partList, n, maxSheetLength) ==
  IF n = 0 THEN partList
  ELSE pushCopy(reduceHeap(partList, n - 1, maxSheetLength), n, maxSheetLength)

\* The array of the caller after preprocessData.  The reduce reads it and
\* never assigns to it, and the sort is applied to the arrays group.parts that
\* the reduce made: what can change are the objects it holds.
partsAfterPreprocess(partList, maxSheetLength) ==
  SubSeq(reduceHeap(partList, Len(partList), maxSheetLength), 1, Len(partList))

-----------------------------------------------------------------------------
(* The grouping step applied to any part table *)

Init ==
  /\ parts \in PartLists
  /\ parameters \in {initialParameters(m) : m \in MaxSheetLengths}
  /\ errors = <<>>
  /\ optimizationResult = NullResult
  /\ isLoading = FALSE
  /\ apiError = NoError
  /\ materialGroups = <<>>
  /\ grouped = FALSE
  /\ prompt = NoPrompt
  /\ inFlight = <<>>
  /\ storedByLatest = TRUE
  /\ previousResult = NullResult
  /\ download = NoDownload

CallPreprocessData ==
  /\ ~grouped
  /\ materialGroups' = preprocessData(parts, parameters.maxSheetLength)
  /\ parts' = partsAfterPreprocess(parts, parameters.maxSheetLength)
  /\ grouped' = TRUE
  /\ UNCHANGED <<parameters, errors, optimizationResult, isLoading, apiError,
                 prompt, inFlight, storedByLatest, previousResult, download>>

NextPre == CallPreprocessData

SpecPre == Init /\ [][NextPre]_vars

-----------------------------------------------------------------------------
(* validateParts and the run button *)

\* Stands for the Thai message set when validation fails.
ValidationMessage == "validation: correct the errors in the table first"

ApiKeyMessage == "Invalid or missing API Key. Please ensure it is set correctly."

EngineMessage == "Failed to get a valid response from the optimization engine."

\* Number.isInteger(part.quantity), the quantity being quantity / QScale.
isInteger(quantity) == quantity % QScale = 0

\* The tests with < 0 in place of <= 0.
partErrorsZeroAllowed(part) ==
  {f \in {"width"}       : part.width < 0} \cup
  {f \in {"length"}      : part.length < 0} \cup
  {f \in {"quantity"}    : ~isInteger(part.quantity) \/ part.quantity < 0} \cup
  {f \in {"thickness"}   : part.thickness < 0} \cup
  {f \in {"grade"}       : part.grade = ""} \cup
  {f \in {"projectName"} : part.projectName = ""}

\* The fields of partErrors that validateParts sets for one part.
partErrors(part) ==
  {f \in {"width"}       : part.width <= 0} \cup
  {f \in {"length"}      : part.length <= 0} \cup
  {f \in {"quantity"}    : ~isInteger(part.quantity) \/ part.quantity <= 0} \cup
  {f \in {"thickness"}   : part.thickness <= 0} \cup
  {f \in {"grade"}       : part.grade = ""} \cup
  {f \in {"projectName"} : part.projectName = ""}

\* newErrors after the forEach: an entry for every part with a field in error
\* (the last part of an id decides the entry of that id).
newErrors(partList) ==
  LET bad == {i \in 1..Len(partList) : partErrors(partList[i]) # {}}
      lastOf(id) == CHOOSE i \in bad :
                      /\ partList[i].id = id
                      /\ \A j \in bad : partList[j].id = id => j <= i
  IN  [id \in {partList[i].id : i \in bad} |-> partErrors(partList[lastOf(id)])]

\* The value validateParts returns: !hasErrors.
validateParts(partList) ==
  \A i \in 1..Len(partList) : partErrors(partList[i]) = {}

-----------------------------------------------------------------------------
(* The prompt of runOptimization *)

\* 0.00000785 is SteelDensityNum / SteelDensityDen.
SteelDensityNum == 785

SteelDensityDen == 100000000

\* The options of the algorithm selector, and a value that is none of them.
Algorithms ==
  {"Standard Simulation", "Genetic Algorithm", "Simulated Annealing", "BZ12",
   "Tabu Search"}

\* The switch without its default branch: algorithmInstruction stays ''.
algorithmInstructionNoDefault(algorithm) ==
  CASE algorithm = "Genetic Algorithm" ->
         "Simulate the process using a conceptual Genetic Algorithm (GA)."
    [] algorithm = "Simulated Annealing" ->
         "Simulate the process using a conceptual Simulated Annealing (SA) approach."
    [] algorithm = "BZ12" ->
         "You are a senior software engineer specializing in manufacturing optimization and 2D sheet nesting problems."
    [] OTHER -> ""

\* The switch on parameters.algorithm (each instruction by its first sentence).
algorithmInstruction(algorithm) ==
  CASE algorithm = "Genetic Algorithm" ->
         "Simulate the process using a conceptual Genetic Algorithm (GA)."
    [] algorithm = "Simulated Annealing" ->
         "Simulate the process using a conceptual Simulated Annealing (SA) approach."
    [] algorithm = "BZ12" ->
         "You are a senior software engineer specializing in manufacturing optimization and 2D sheet nesting problems."
    [] OTHER ->
         "Your primary task is to act as a mock optimization engine for steel coil nesting."

\* The prompt, held as the record of what the template interpolates and of
\* the constraints it states in fixed words.
buildPrompt(partList, params) ==
  [algorithmInstruction |-> algorithmInstruction(params.algorithm),
   variableLength       |-> "Do not assume a fixed sheet length.",
   rollWeightMin        |-> params.rollWeightRange.min,
   rollWeightMax        |-> params.rollWeightRange.max,
   weightFormula        |-> <<SteelDensityNum, SteelDensityDen>>,
   maxSheetLength       |-> params.maxSheetLength,
   candidateCoilWidths  |-> params.candidateCoilWidths,
   parameters           |-> params,
   materialGroups       |-> preprocessData(partList, params.maxSheetLength)]

\* The prompt built for any part table and any algorithm.
InitPrompt ==
  /\ parts \in PartLists
  /\ parameters \in {[initialParameters(m) EXCEPT !.algorithm = a] :
                       m \in MaxSheetLengths, a \in Algorithms}
  /\ errors = <<>>
  /\ optimizationResult = NullResult
  /\ isLoading = FALSE
  /\ apiError = NoError
  /\ materialGroups = <<>>
  /\ grouped = FALSE
  /\ prompt = NoPrompt
  /\ inFlight = <<>>
  /\ storedByLatest = TRUE
  /\ previousResult = NullResult
  /\ download = NoDownload

\* runOptimization up to its await.
CallBuildPrompt ==
  /\ prompt = NoPrompt
  /\ prompt' = buildPrompt(parts, parameters)
  /\ materialGroups' = preprocessData(parts, parameters.maxSheetLength)
  /\ parts' = partsAfterPreprocess(parts, parameters.maxSheetLength)
  /\ grouped' = TRUE
  /\ UNCHANGED <<parameters, errors, optimizationResult, isLoading, apiError,
                 inFlight, storedByLatest, previousResult, download>>

NextPrompt == CallBuildPrompt

SpecPrompt == InitPrompt /\ [][NextPrompt]_vars

-----------------------------------------------------------------------------
(* The reply of the optimization service *)

\* width * length * thickness * 0.00000785, in units of 1/SteelDensityDen kg.
sheetWeight(sheet, thickness) ==
  sheet.width * sheet.length * thickness * SteelDensityNum

\* What the service is free to decide in a reply that conforms to
\* responseSchema: nothing in runOptimization constrains or checks it.
ServiceChoices ==
  [reversed     : BOOLEAN,        \* groups answered in reverse order
   sheetWidth   : {1000, 1200},
   sheetLength  : {100, 200, 300},
   sheets       : {1, 2},         \* sheets per group, when it has that many parts
   placeFlagged : BOOLEAN,        \* parts flagged exceedsSheetLength placed too
   overCount    : {0, 1},         \* summary.totalPartsNested minus the parts placed
   rotated      : BOOLEAN]        \* the parts placed rotated

\* The number of instances of a part: its quantity.
instancesOf(part) == part.quantity \div QScale

RECURSIVE sumInstances(_, _)
sumInstances(partSeq, n) ==
  IF n = 0 THEN 0 ELSE sumInstances(partSeq, n - 1) + instancesOf(partSeq[n])

RECURSIVE totalInstances(_, _)
totalInstances(groups, n) ==
  IF n = 0 THEN 0
  ELSE totalInstances(groups, n - 1) + sumInstances(groups[n].parts, Len(groups[n].parts))

\* The instances of a group the service places, in the group's order.
RECURSIVE placedInstances(_, _, _)
placedInstances(partSeq, n, placeFlagged) ==
  IF n = 0 THEN <<>>
  ELSE placedInstances(partSeq, n - 1, placeFlagged) \o
       (IF partSeq[n].exceedsSheetLength /\ ~placeFlagged THEN <<>>
        ELSE [k \in 1..instancesOf(partSeq[n]) |-> partSeq[n]])

\* The instances dealt to sheet s of k, in order.
RECURSIVE dealt(_, _, _, _)
dealt(instances, n, k, s) ==
  IF n = 0 THEN <<>>
  ELSE dealt(instances, n - 1, k, s) \o
       (IF ((n - 1) % k) + 1 = s THEN <<instances[n]>> ELSE <<>>)

\* NestedParts stacked along the sheet, kerf apart.
RECURSIVE stacked(_, _, _, _)
stacked(instances, n, kerf, rotated) ==
  IF n = 0 THEN <<>>
  ELSE LET below == stacked(instances, n - 1, kerf, rotated)
           y     == IF n = 1 THEN 0
                    ELSE below[n - 1].y + kerf +
                         (IF rotated THEN below[n - 1].width ELSE below[n - 1].length)
       IN  Append(below, [partId |-> instances[n].id, x |-> 0, y |-> y,
                          width |-> instances[n].width,
                          length |-> instances[n].length, rotated |-> rotated])

groupResult(group, params, c) ==
  LET instances == placedInstances(group.parts, Len(group.parts), c.placeFlagged)
      k         == IF Len(instances) < c.sheets THEN Len(instances) ELSE c.sheets
  IN  [materialKey |-> group.materialKey,
       thickness |-> group.thickness,
       grade |-> group.grade,
       totalPartsNested |-> Len(instances),
       totalSheetsUsed |-> k,
       averageWastePercentage |-> 15,
       layouts |->
         [s \in 1..k |->
            LET mine == dealt(instances, Len(instances), k, s)
            IN  [sheetNumber |-> s,
                 width |-> c.sheetWidth,
                 length |-> c.sheetLength,
                 nestedParts |-> stacked(mine, Len(mine), params.kerf, c.rotated),
                 wastePercentage |-> 15]]]

RECURSIVE sumNested(_, _)
sumNested(groupResults, n) ==
  IF n = 0 THEN 0
  ELSE sumNested(groupResults, n - 1) + groupResults[n].totalPartsNested

\* JSON.parse(response.text.trim()) for a reply that conforms to responseSchema.
serviceResult(groups, params, c) ==
  LET n        == Len(groups)
      answered == [g \in 1..n |->
                     groupResult(groups[IF c.reversed THEN n + 1 - g ELSE g], params, c)]
  IN  [summary |->
         [totalParts |-> totalInstances(groups, n),
          totalPartsNested |-> sumNested(answered, n) + c.overCount,
          numberOfGroups |-> n,
          overallWastePercentage |-> 15],
       resultsByGroup |-> answered]

\* What the try block of runOptimization can throw: the rejection of the
\* service call, the TypeError of response.text.trim() on a reply without text
\* and the SyntaxError of JSON.parse are Errors; a rejection can also carry a
\* value that is no Error. The message of each holds "API_KEY" or does not.
ServiceFailures == [instanceOfError : BOOLEAN, includesApiKey : BOOLEAN]

\* The catch block rethrowing what it caught, under the message it came with.
thrownMessageOfCause(failure) ==
  IF failure.includesApiKey THEN "API_KEY not valid" ELSE "fetch failed"

\* A failure that leaves no message.
thrownMessageNone(failure) == NoError

\* The message of the Error the catch block throws.
thrownMessage(failure) ==
  IF failure.instanceOfError /\ failure.includesApiKey
  THEN ApiKeyMessage
  ELSE EngineMessage

-----------------------------------------------------------------------------
(* The results view and the exports *)

\* The results view is rendered for optimizationResult && !isLoading.
HasResult == optimizationResult # NullResult

RECURSIVE gcd(_, _)
gcd(a, b) == IF b = 0 THEN a ELSE gcd(b, a % b)

\* The number n / d, as the pair <<numerator, denominator>> in lowest terms.
ratio(n, d) == LET g == gcd(n, d) IN <<n \div g, d \div g>>

times(p, q) == ratio(p[1] * q[1], p[2] * q[2])

steelDensityKgPerM3 == 7850

\* The weight with the thickness taken in centimetres.
weightKgThicknessInCentimetres(layout, thickness) ==
  times(times(times(ratio(layout.width, 1000), ratio(layout.length, 1000)),
              ratio(thickness, 100)),
        ratio(steelDensityKgPerM3, 1))

\* weightKg of a sheet card of the results view.
weightKg(layout, thickness) ==
  times(times(times(ratio(layout.width, 1000), ratio(layout.length, 1000)),
              ratio(thickness, 1000)),
        ratio(steelDensityKgPerM3, 1))

\* weightKg of a row of the layouts table of the PDF report.
pdfWeightKg(layout, thickness) ==
  times(times(times(ratio(layout.width, 1000), ratio(layout.length, 1000)),
              ratio(thickness, 1000)),
        ratio(steelDensityKgPerM3, 1))

\* n.toFixed(2) for an integer n.
toFixed2(n) == ToString(n) \o ".00"

quoted(s) == "\"" \o s \o "\""

csvHeader ==
  <<"Material Group", "Thickness (mm)", "Grade",
    "Sheet Number", "Sheet Width (mm)", "Sheet Length (mm)",
    "Part ID", "Part Width (mm)", "Part Length (mm)",
    "X", "Y", "Rotated", "Sheet Waste %">>

\* The row with the cells of x and y in each other's place.
csvRowYBeforeX(group, layout, part) ==
  <<quoted(group.materialKey), ToString(group.thickness), quoted(group.grade),
    ToString(layout.sheetNumber), ToString(layout.width), ToString(layout.length),
    quoted(part.partId), ToString(part.width), ToString(part.length),
    ToString(part.y), ToString(part.x),
    IF part.rotated THEN "TRUE" ELSE "FALSE",
    toFixed2(layout.wastePercentage)>>

\* The cells of the row of one NestedPart, before row.join(","): a number is
\* written as join writes it, and part.width || 0 is the width of a part that
\* has one.
csvRow(group, layout, part) ==
  <<quoted(group.materialKey), ToString(group.thickness), quoted(group.grade),
    ToString(layout.sheetNumber), ToString(layout.width), ToString(layout.length),
    quoted(part.partId), ToString(part.width), ToString(part.length),
    ToString(part.x), ToString(part.y),
    IF part.rotated THEN "TRUE" ELSE "FALSE",
    toFixed2(layout.wastePercentage)>>

RECURSIVE csvRowsOfLayout(_, _, _)
csvRowsOfLayout(group, layout, n) ==
  IF n = 0 THEN <<>>
  ELSE Append(csvRowsOfLayout(group, layout, n - 1),
              csvRow(group, layout, layout.nestedParts[n]))

RECURSIVE csvRowsOfGroup(_, _)
csvRowsOfGroup(group, n) ==
  IF n = 0 THEN <<>>
  ELSE csvRowsOfGroup(group, n - 1) \o
       csvRowsOfLayout(group, group.layouts[n], Len(group.layouts[n].nestedParts))

RECURSIVE csvRowsOfResult(_, _)
csvRowsOfResult(result, n) ==
  IF n = 0 THEN <<>>
  ELSE csvRowsOfResult(result, n - 1) \o
       csvRowsOfGroup(result.resultsByGroup[n], Len(result.resultsByGroup[n].layouts))

\* rows of exportToCsv, each row as the sequence of its cells.
exportToCsv(result) ==
  <<csvHeader>> \o csvRowsOfResult(result, Len(result.resultsByGroup))

\* The LWPOLYLINE entity drawRect writes: a layer, a colour and four vertices.
drawRect(x, y, w, h, layer, color) ==
  [entity |-> "LWPOLYLINE", layer |-> layer, color |-> color,
   vertices |-> << <<x, y>>, <<x + w, y>>, <<x + w, y + h>>, <<x, y + h>> >>]

\* The TEXT entity drawText writes (the texts of the model hold no control
\* character for it to remove); height is a ratio.
drawText(x, y, text, layer, height, color) ==
  [entity |-> "TEXT", layer |-> layer, color |-> color,
   x |-> x, y |-> y, height |-> height, text |-> text]

\* The entities of a part drawn with its own width and length, rotated or not.
dxfPartNeverSwapped(part, globalYOffset) ==
  LET drawW     == part.width
      drawH     == part.length
      least     == IF drawW < drawH THEN drawW ELSE drawH
      labelText == part.partId \o " (" \o ToString(drawW) \o "x" \o ToString(drawH) \o ")"
  IN  <<drawRect(part.x, globalYOffset + part.y, drawW, drawH, "PARTS", 5)>> \o
      (IF least > 5 * 6
       THEN <<drawText(part.x + 5, globalYOffset + part.y + 5, labelText, "TEXT",
                       ratio(least, 6), 1)>>
       ELSE <<>>)

\* The entities of one NestedPart: its boundary and, when labelSize =
\* Math.min(drawW, drawH) / 6 is over 5, its label.
dxfPart(part, globalYOffset) ==
  LET drawW     == IF part.rotated THEN part.length ELSE part.width
      drawH     == IF part.rotated THEN part.width ELSE part.length
      least     == IF drawW < drawH THEN drawW ELSE drawH
      labelText == part.partId \o " (" \o ToString(drawW) \o "x" \o ToString(drawH) \o ")"
  IN  <<drawRect(part.x, globalYOffset + part.y, drawW, drawH, "PARTS", 5)>> \o
      (IF least > 5 * 6
       THEN <<drawText(part.x + 5, globalYOffset + part.y + 5, labelText, "TEXT",
                       ratio(least, 6), 1)>>
       ELSE <<>>)

RECURSIVE dxfParts(_, _, _)
dxfParts(nestedParts, n, globalYOffset) ==
  IF n = 0 THEN <<>>
  ELSE dxfParts(nestedParts, n - 1, globalYOffset) \o dxfPart(nestedParts[n], globalYOffset)

\* The entities of one sheet: its boundary, its label and its parts.
dxfLayout(layout, globalYOffset) ==
  <<drawRect(0, globalYOffset, layout.width, layout.length, "SHEETS", 7),
    drawText(10, globalYOffset + 10,
             "Sheet " \o ToString(layout.sheetNumber) \o " - Waste " \o
               toFixed2(layout.wastePercentage) \o "%",
             "TEXT", ratio(50, 1), 7)>> \o
  dxfParts(layout.nestedParts, Len(layout.nestedParts), globalYOffset)

\* The sheets stacked without the spacing of 500 between them.
RECURSIVE offsetAfterLayoutsNoSpacing(_, _, _)
offsetAfterLayoutsNoSpacing(layouts, n, start) ==
  IF n = 0 THEN start
  ELSE offsetAfterLayoutsNoSpacing(layouts, n - 1, start) + layouts[n].length

\* globalYOffset after the first n sheets of a group that starts at start.
RECURSIVE offsetAfterLayouts(_, _, _)
offsetAfterLayouts(layouts, n, start) ==
  IF n = 0 THEN start
  ELSE offsetAfterLayouts(layouts, n - 1, start) + layouts[n].length + 500

RECURSIVE dxfLayouts(_, _, _)
dxfLayouts(layouts, n, start) ==
  IF n = 0 THEN <<>>
  ELSE dxfLayouts(layouts, n - 1, start) \o
       dxfLayout(layouts[n], offsetAfterLayouts(layouts, n - 1, start))

\* globalYOffset after the first n groups.
RECURSIVE offsetAfterGroups(_, _)
offsetAfterGroups(result, n) ==
  IF n = 0 THEN 0
  ELSE offsetAfterLayouts(result.resultsByGroup[n].layouts,
                          Len(result.resultsByGroup[n].layouts),
                          offsetAfterGroups(result, n - 1)) + 1000

\* The entities of one group: its header and its sheets.
dxfGroup(group, start) ==
  <<drawText(0, start - 200,
             "Group " \o group.materialKey \o " T" \o ToString(group.thickness),
             "TEXT", ratio(150, 1), 7)>> \o
  dxfLayouts(group.layouts, Len(group.layouts), start)

RECURSIVE dxfGroups(_, _)
dxfGroups(result, n) ==
  IF n = 0 THEN <<>>
  ELSE dxfGroups(result, n - 1) \o
       dxfGroup(result.resultsByGroup[n], offsetAfterGroups(result, n - 1))

\* The ENTITIES section of the file exportToDxf writes, in the order written.
exportToDxf(result) == dxfGroups(result, Len(result.resultsByGroup))

-----------------------------------------------------------------------------
(* App *)

\* The button that never is disabled.
runButtonNeverDisabled == FALSE

\* disabled={isLoading} of the run button.
runButtonDisabled == isLoading

\* The result kept in place when a run starts.
resultKeptWhenRunStarts == optimizationResult

\* setOptimizationResult(null) of a run that passed validation.
resultWhenRunStarts == NullResult

\* The result cleared before the parts are validated.
resultClearedWhenValidationFails == NullResult

\* The early return on failed validation: no setter of the result is reached.
resultWhenValidationFails == optimizationResult

\* The results view is rendered: {optimizationResult && !isLoading && ...}.
resultsShown == HasResult /\ ~isLoading

\* The error banner is rendered: {apiError && ...}.
errorShown == apiError # NoError

\* handleRunOptimization up to its await: validateParts, the three setters and
\* the synchronous start of runOptimization, which runs preprocessData.
\* The run button clicked, previousResult being set to recorded when the run
\* starts: the handler runs when the button is not disabled, and no more than
\* MaxInFlight calls are let be in flight.
handleRunOptimizationRecording(recorded) ==
  /\ ~runButtonDisabled
  /\ Len(inFlight) < MaxInFlight
  /\ errors' = newErrors(parts)
  /\ download' = NoDownload
  /\ IF ~validateParts(parts)
     THEN /\ apiError' = ValidationMessage
          /\ optimizationResult' = resultWhenValidationFails
          /\ UNCHANGED <<parts, parameters, isLoading, materialGroups,
                         grouped, prompt, inFlight, storedByLatest,
                         previousResult>>
     ELSE /\ isLoading' = TRUE
          /\ apiError' = NoError
          /\ optimizationResult' = resultWhenRunStarts
          /\ materialGroups' = preprocessData(parts, parameters.maxSheetLength)
          /\ parts' = partsAfterPreprocess(parts, parameters.maxSheetLength)
          /\ grouped' = TRUE
          /\ prompt' = buildPrompt(parts, parameters)
          /\ inFlight' = Append([i \in 1..Len(inFlight) |-> FALSE], TRUE)
          /\ previousResult' = recorded
          /\ UNCHANGED <<parameters, storedByLatest>>

handleRunOptimization == handleRunOptimizationRecording(previousResult)

\* A run started with the result it replaces kept in previousResult.
handleRunOptimizationAgain ==
  handleRunOptimizationRecording(IF HasResult THEN optimizationResult
                                 ELSE previousResult)

\* inFlight without its i-th call.
settled(calls, i) ==
  [j \in 1..(Len(calls) - 1) |-> IF j < i THEN calls[j] ELSE calls[j + 1]]

\* An awaited call resolves: runOptimization returns the parsed reply, the
\* handler stores it and the finally block clears isLoading.
runOptimizationReturns ==
  /\ \E i \in 1..Len(inFlight) :
       /\ inFlight' = settled(inFlight, i)
       /\ storedByLatest' = inFlight[i]
  /\ \E c \in ServiceChoices :
       optimizationResult' = serviceResult(materialGroups, parameters, c)
  /\ isLoading' = FALSE
  /\ UNCHANGED <<parts, parameters, errors, apiError, materialGroups, grouped,
                 prompt, previousResult, download>>

\* The rejection handled without the finally block: isLoading stays set.
runOptimizationThrowsNoFinally ==
  /\ \E i \in 1..Len(inFlight) :
       /\ inFlight' = settled(inFlight, i)
       /\ storedByLatest' = inFlight[i]
  /\ \E failure \in ServiceFailures : apiError' = thrownMessage(failure)
  /\ UNCHANGED <<parts, parameters, errors, optimizationResult, isLoading,
                 materialGroups, grouped, prompt, previousResult, download>>

\* An awaited call rejects: runOptimization throws, the handler stores the
\* message and the finally block clears isLoading.
runOptimizationThrows ==
  /\ \E i \in 1..Len(inFlight) :
       /\ inFlight' = settled(inFlight, i)
       /\ storedByLatest' = inFlight[i]
  /\ \E failure \in ServiceFailures : apiError' = thrownMessage(failure)
  /\ isLoading' = FALSE
  /\ UNCHANGED <<parts, parameters, errors, optimizationResult, materialGroups,
                 grouped, prompt, previousResult, download>>

\* The CSV button of the results view.
handleExportCsv ==
  /\ resultsShown
  /\ download' = [name |-> "nesting_results.csv",
                  content |-> exportToCsv(optimizationResult)]
  /\ UNCHANGED <<parts, parameters, errors, optimizationResult, isLoading,
                 apiError, materialGroups, grouped, prompt, inFlight,
                 storedByLatest, previousResult>>

\* The DXF button of the results view.
handleExportDxf ==
  /\ resultsShown
  /\ download' = [name |-> "nesting_layout.dxf",
                  content |-> exportToDxf(optimizationResult)]
  /\ UNCHANGED <<parts, parameters, errors, optimizationResult, isLoading,
                 apiError, materialGroups, grouped, prompt, inFlight,
                 storedByLatest, previousResult>>

Next ==
  \/ handleRunOptimization
  \/ runOptimizationReturns
  \/ runOptimizationThrows

Spec == Init /\ [][Next]_vars

\* The run button and the export buttons of the results view.
NextExport ==
  \/ handleRunOptimization
  \/ runOptimizationReturns
  \/ runOptimizationThrows
  \/ handleExportCsv
  \/ handleExportDxf

SpecExport == Init /\ [][NextExport]_vars

\* Runs repeated on one part table of at most one part, each rerun keeping
\* the result it replaces.
InitRuns == Init /\ Len(parts) <= 1

NextRuns ==
  \/ handleRunOptimizationAgain
  \/ runOptimizationReturns
  \/ runOptimizationThrows

SpecRuns == InitRuns /\ [][NextRuns]_vars

\* uuidv4() of a new row: an id that no row of the table has.
newId(partList) ==
  PartId(CHOOSE k \in 1..(Len(partList) + 1) :
           /\ \A i \in 1..Len(partList) : partList[i].id # PartId(k)
           /\ \A j \in 1..(k - 1) :
                \E i \in 1..Len(partList) : partList[i].id = PartId(j))

\* addRow of the parts table: a row of zeroes, quantity one and empty texts
\* is appended; the table is let grow to MaxParts rows.
addRow ==
  /\ Len(parts) < MaxParts
  /\ parts' = Append(parts, [id |-> newId(parts), width |-> 0, length |-> 0,
                              quantity |-> QScale, thickness |-> 0,
                              grade |-> "", projectName |-> ""])
  /\ UNCHANGED <<parameters, errors, optimizationResult, isLoading, apiError,
                 materialGroups, grouped, prompt, inFlight, storedByLatest,
                 previousResult, download>>

\* The rows of the table that do not have this id.
withoutId(partList, id) ==
  LET RECURSIVE keep(_)
      keep(n) == IF n = 0 THEN <<>>
                 ELSE IF partList[n].id = id THEN keep(n - 1)
                 ELSE Append(keep(n - 1), partList[n])
  IN  keep(Len(partList))

\* deleteRow of the parts table: the rows of the id and its error entry go.
deleteRow ==
  \E i \in 1..Len(parts) :
    /\ parts' = withoutId(parts, parts[i].id)
    /\ errors' = [id \in DOMAIN errors \ {parts[i].id} |-> errors[id]]
    /\ UNCHANGED <<parameters, optimizationResult, isLoading, apiError,
                   materialGroups, grouped, prompt, inFlight, storedByLatest,
                   previousResult, download>>

\* The run button and the row buttons of the parts table, from a table of
\* at most one part.
NextEdit ==
  \/ handleRunOptimization
  \/ runOptimizationReturns
  \/ runOptimizationThrows
  \/ addRow
  \/ deleteRow

SpecEdit == InitRuns /\ [][NextEdit]_vars

\* The run button on a table of at most one part, when every awaited call
\* resolves or rejects: a call that is in flight does not stay in flight
\* for ever.
SpecSettles ==
  InitRuns /\ [][Next]_vars /\ WF_vars(runOptimizationReturns \/ runOptimizationThrows)

-----------------------------------------------------------------------------
(* Properties of the grouping step *)

\* The places (group, position) of the output that hold the part with this id.
PlacesOf(id) ==
  {gj \in (1..Len(materialGroups)) \X (1..MaxParts + 1) :
     /\ gj[2] <= Len(materialGroups[gj[1]].parts)
     /\ materialGroups[gj[1]].parts[gj[2]].id = id}

\* The position of the part with this id in the part table.
InputIndex(id) == CHOOSE i \in 1..Len(parts) : parts[i].id = id

MaterialPairs == {<<parts[i].grade, parts[i].thickness>> : i \in 1..Len(parts)}

\* C1: grouping is a partition by (grade, thickness): every part of the input
\* is in exactly one group, every part of a group has the group's grade and
\* thickness, two groups never have the same (grade, thickness), and there are
\* as many groups as distinct (grade, thickness) pairs in the input.
C1_GroupingIsPartition ==
  grouped =>
    /\ \A i \in 1..Len(parts) : Cardinality(PlacesOf(parts[i].id)) = 1
    /\ \A g \in 1..Len(materialGroups) :
         /\ Len(materialGroups[g].parts) >= 1
         /\ \A j \in 1..Len(materialGroups[g].parts) :
              /\ materialGroups[g].parts[j].grade = materialGroups[g].grade
              /\ materialGroups[g].parts[j].thickness = materialGroups[g].thickness
              /\ \E i \in 1..Len(parts) : parts[i].id = materialGroups[g].parts[j].id
    /\ \A g, h \in 1..Len(materialGroups) :
         g # h => <<materialGroups[g].grade, materialGroups[g].thickness>>
                    # <<materialGroups[h].grade, materialGroups[h].thickness>>
    /\ Len(materialGroups) = Cardinality(MaterialPairs)

\* Three parts, two of one grade with different thicknesses, grouped.
C1_Witness ==
  /\ grouped
  /\ Len(parts) = 3
  /\ Len(materialGroups) = 2
  /\ \E i, k \in 1..Len(parts) :
       parts[i].grade = parts[k].grade /\ parts[i].thickness # parts[k].thickness

\* C2: within every group the parts are in descending order of width, then
\* area, then length: of two consecutive parts a, b either a is wider, or the
\* widths are equal and a has the larger area, or widths and areas are equal
\* and a.length >= b.length.
C2_SortedDescending ==
  grouped =>
    \A g \in 1..Len(materialGroups) :
      \A j \in 1..(Len(materialGroups[g].parts) - 1) :
        LET a == materialGroups[g].parts[j]
            b == materialGroups[g].parts[j + 1]
        IN  \/ a.width > b.width
            \/ a.width = b.width /\ a.area > b.area
            \/ a.width = b.width /\ a.area = b.area /\ a.length >= b.length

\* A group where each of the three keys decides one pair: the input held a
\* narrow part before a wide one, a small before a large of the same width, or
\* a short before a long of the same width and area.
C2_Witness ==
  /\ grouped
  /\ \E i, k \in 1..Len(parts) :
       i < k /\ materialKey(parts[i]) = materialKey(parts[k])
             /\ parts[i].width < parts[k].width
  /\ \E i, k \in 1..Len(parts) :
       i < k /\ materialKey(parts[i]) = materialKey(parts[k])
             /\ parts[i].width = parts[k].width
             /\ parts[i].width * parts[i].length = parts[k].width * parts[k].length
             /\ parts[i].length < parts[k].length

\* C3: the sort is stable: two parts of a group with equal width, area and
\* length are in the group in the order they have in the input.
C3_SortStable ==
  grouped =>
    \A g \in 1..Len(materialGroups) :
      \A j, k \in 1..Len(materialGroups[g].parts) :
        LET a == materialGroups[g].parts[j]
            b == materialGroups[g].parts[k]
        IN  (j < k /\ a.width = b.width /\ a.area = b.area /\ a.length = b.length)
              => InputIndex(a.id) < InputIndex(b.id)

\* A group that holds two parts with equal keys behind a part sorted in front
\* of them although it came later in the input.
C3_Witness ==
  /\ grouped
  /\ \E g \in 1..Len(materialGroups) :
       /\ Len(materialGroups[g].parts) = 3
       /\ LET a == materialGroups[g].parts[2]
              b == materialGroups[g].parts[3]
          IN  /\ a.width = b.width /\ a.area = b.area /\ a.length = b.length
              /\ InputIndex(materialGroups[g].parts[1].id) = 3

\* C5: every part held by a group carries area = width * length and
\* exceedsSheetLength = (length > maxSheetLength), a length equal to
\* maxSheetLength is not flagged, and id, width, length, quantity, thickness,
\* grade and projectName are those of the input part.
C5_Annotated ==
  grouped =>
    \A g \in 1..Len(materialGroups) :
      \A j \in 1..Len(materialGroups[g].parts) :
        LET q == materialGroups[g].parts[j]
            p == parts[InputIndex(q.id)]
        IN  /\ q.area = p.width * p.length
            /\ q.exceedsSheetLength = (p.length > parameters.maxSheetLength)
            /\ (p.length = parameters.maxSheetLength => ~q.exceedsSheetLength)
            /\ DOMAIN q = DOMAIN p \cup {"area", "exceedsSheetLength"}
            /\ \A f \in DOMAIN p : q[f] = p[f]

\* A group with a part exactly as long as maxSheetLength and a longer one.
C5_Witness ==
  /\ grouped
  /\ \E g \in 1..Len(materialGroups) :
       \E j, k \in 1..Len(materialGroups[g].parts) :
         /\ materialGroups[g].parts[j].length = parameters.maxSheetLength
         /\ ~materialGroups[g].parts[j].exceedsSheetLength
         /\ materialGroups[g].parts[k].length > parameters.maxSheetLength
         /\ materialGroups[g].parts[k].exceedsSheetLength

-----------------------------------------------------------------------------
(* Properties of a run *)

\* The position in the part table of the first part of this grade and thickness.
FirstIndex(grade, thickness) ==
  CHOOSE i \in 1..Len(parts) :
    /\ parts[i].grade = grade /\ parts[i].thickness = thickness
    /\ \A j \in 1..(i - 1) :
         ~(parts[j].grade = grade /\ parts[j].thickness = thickness)

\* The groups of a sequence of groups or group results are in discovery order.
InDiscoveryOrder(groups) ==
  \A g, h \in 1..Len(groups) :
    g < h <=> FirstIndex(groups[g].grade, groups[g].thickness)
                < FirstIndex(groups[h].grade, groups[h].thickness)

\* The part of C4 that is about preprocessData alone.
PreprocessInDiscoveryOrder == grouped => InDiscoveryOrder(materialGroups)

\* C4: groups are produced in discovery order: group A precedes group B in the
\* output of preprocessData, and in resultsByGroup of the result, exactly when
\* the first part of A's (grade, thickness) comes before the first part of
\* B's in the input.
C4_DiscoveryOrder ==
  /\ grouped => InDiscoveryOrder(materialGroups)
  /\ HasResult => InDiscoveryOrder(optimizationResult.resultsByGroup)

\* The ids of the parts the claim calls invalid: width, length or thickness
\* not positive, or a quantity that is not a positive integer.
Offenders(partList) ==
  {partList[i].id : i \in
     {i \in 1..Len(partList) :
        \/ partList[i].width <= 0
        \/ partList[i].length <= 0
        \/ partList[i].thickness <= 0
        \/ partList[i].quantity <= 0
        \/ partList[i].quantity % QScale # 0}}

\* C6: when a part is invalid, starting a run reports the id of every invalid
\* part and sets the error message, and neither groups the parts nor calls the
\* optimization: nothing is loading and no groups are built.
C6_InvalidInputAborts ==
  [][(handleRunOptimization /\ Offenders(parts) # {}) =>
       /\ Offenders(parts) \subseteq DOMAIN errors'
       /\ apiError' = ValidationMessage
       /\ ~isLoading'
       /\ UNCHANGED <<materialGroups, grouped, optimizationResult>>]_vars

\* A run was refused for two or more invalid parts, all of them reported.
C6_Witness ==
  /\ apiError = ValidationMessage
  /\ Cardinality(Offenders(parts)) >= 2
  /\ Offenders(parts) \subseteq DOMAIN errors
  /\ ~grouped /\ ~isLoading

\* The NestedParts of a result, each with its group and its sheet.
Placements ==
  {p \in [group : 1..MaxParts + 1, sheet : 1..2, at : 1..(2 * (MaxParts + 1))] :
     /\ p.group <= Len(optimizationResult.resultsByGroup)
     /\ p.sheet <= Len(optimizationResult.resultsByGroup[p.group].layouts)
     /\ p.at <= Len(optimizationResult.resultsByGroup[p.group].layouts[p.sheet].nestedParts)}

NestedAt(p) ==
  optimizationResult.resultsByGroup[p.group].layouts[p.sheet].nestedParts[p.at]

\* The sheets of a result, each with its group.
SheetsOfResult ==
  {p \in [group : 1..MaxParts + 1, sheet : 1..2] :
     /\ p.group <= Len(optimizationResult.resultsByGroup)
     /\ p.sheet <= Len(optimizationResult.resultsByGroup[p.group].layouts)}

SheetAt(p) == optimizationResult.resultsByGroup[p.group].layouts[p.sheet]

\* A result carries warnings: something besides summary and resultsByGroup.
HasWarnings == DOMAIN optimizationResult \ {"summary", "resultsByGroup"} # {}

\* C7: a part longer than maxSheetLength is flagged exceedsSheetLength, is on
\* no sheet of the result, and is reported as unplaceable with the result.
C7_OversizeExcluded ==
  /\ grouped =>
       \A g \in 1..Len(materialGroups) :
         \A j \in 1..Len(materialGroups[g].parts) :
           materialGroups[g].parts[j].length > parameters.maxSheetLength
             => materialGroups[g].parts[j].exceedsSheetLength
  /\ HasResult =>
       /\ \A p \in Placements :
            \A i \in 1..Len(parts) :
              parts[i].id = NestedAt(p).partId
                => parts[i].length <= parameters.maxSheetLength
       /\ (\E i \in 1..Len(parts) : parts[i].length > parameters.maxSheetLength)
            => HasWarnings

\* The instances of the input: the sum of the quantities.
InputInstances == sumInstances(parts, Len(parts))

\* C8: the NestedParts of all sheets of all groups number
\* summary.totalPartsNested, which is at most totalParts, the number of input
\* instances; instances that are not placed are reported with the result.
C8_CountConservation ==
  HasResult =>
    /\ Cardinality(Placements) = optimizationResult.summary.totalPartsNested
    /\ optimizationResult.summary.totalPartsNested
         <= optimizationResult.summary.totalParts
    /\ optimizationResult.summary.totalParts = InputInstances
    /\ Cardinality(Placements) < InputInstances => HasWarnings

\* C9: every sheet of a result is at most maxSheetLength long and has one of
\* the candidate coil widths of the parameters.
C9_SheetWithinLimits ==
  HasResult =>
    \A p \in SheetsOfResult :
      /\ SheetAt(p).length <= parameters.maxSheetLength
      /\ SheetAt(p).width \in Range(parameters.candidateCoilWidths)

\* C10: every sheet that is not the last of its group weighs between
\* rollWeightRange.min and rollWeightRange.max (no sheet of a result carries a
\* flag that would except it); the last sheet of a group weighs at most
\* rollWeightRange.max.
C10_WeightWindow ==
  HasResult =>
    \A p \in SheetsOfResult :
      LET group  == optimizationResult.resultsByGroup[p.group]
          weight == sheetWeight(SheetAt(p), group.thickness)
      IN  /\ weight <= parameters.rollWeightRange.max * SteelDensityDen
          /\ p.sheet < Len(group.layouts)
               => parameters.rollWeightRange.min * SteelDensityDen <= weight

\* The sides of a NestedPart along the width and the length of its sheet.
EffectiveWidth(nested) == IF nested.rotated THEN nested.length ELSE nested.width

EffectiveLength(nested) == IF nested.rotated THEN nested.width ELSE nested.length

\* C11: every NestedPart of a result lies on its sheet (x >= 0, y >= 0,
\* x + effective width <= sheet width, y + effective length <= sheet length,
\* the effective sides being swapped for a rotated part), and two NestedParts
\* of one sheet are at least kerf apart along x or along y, which is what
\* boxes inflated by kerf/2 on every side that do not overlap means.
C11_PlacementValid ==
  HasResult =>
    /\ \A p \in Placements :
         /\ NestedAt(p).x >= 0
         /\ NestedAt(p).y >= 0
         /\ NestedAt(p).x + EffectiveWidth(NestedAt(p)) <= SheetAt(p).width
         /\ NestedAt(p).y + EffectiveLength(NestedAt(p)) <= SheetAt(p).length
    /\ \A p, q \in Placements :
         (p.group = q.group /\ p.sheet = q.sheet /\ p.at < q.at) =>
           LET a == NestedAt(p)
               b == NestedAt(q)
           IN  \/ a.x + EffectiveWidth(a) + parameters.kerf <= b.x
               \/ b.x + EffectiveWidth(b) + parameters.kerf <= a.x
               \/ a.y + EffectiveLength(a) + parameters.kerf <= b.y
               \/ b.y + EffectiveLength(b) + parameters.kerf <= a.y

\* C12: a run is determined by the parts and the parameters: the result of a
\* run is equal to the result it replaces, which an earlier run on the same
\* part table and the same parameters delivered.
C12_Deterministic ==
  (HasResult /\ previousResult # NullResult) => optimizationResult = previousResult

C14_InputsReadOnly ==
  [][(isLoading' # isLoading \/ grouped' # grouped) =>
       (parts' = parts /\ parameters' = parameters)]_vars

\* A run has ended on three parts of one group that preprocessData put in
\* another order than the table has them, one of them flagged as too long.
C14_Witness ==
  /\ HasResult /\ ~isLoading
  /\ Len(parts) = 3
  /\ Len(materialGroups) = 1
  /\ InputIndex(materialGroups[1].parts[1].id) = 3
  /\ materialGroups[1].parts[1].exceedsSheetLength

\* width * length * thickness * 0.00000785 kg, as a ratio.
StatedWeight(layout, thickness) ==
  ratio(sheetWeight(layout, thickness), SteelDensityDen)

\* C15: one weight formula everywhere: for every sheet of a result, the weight
\* of the results view and the weight of the PDF report,
\* (width/1000) * (length/1000) * (thickness/1000) * 7850, are the number
\* width * length * thickness * 0.00000785, and that is the formula the prompt
\* states to the service.
C15_OneWeightFormula ==
  HasResult =>
    /\ prompt.weightFormula = <<SteelDensityNum, SteelDensityDen>>
    /\ \A p \in SheetsOfResult :
         LET thickness == optimizationResult.resultsByGroup[p.group].thickness
         IN  /\ weightKg(SheetAt(p), thickness) = StatedWeight(SheetAt(p), thickness)
             /\ pdfWeightKg(SheetAt(p), thickness) = StatedWeight(SheetAt(p), thickness)

\* A result with a sheet 1200 x 300 of thickness 3, whose weight, 8.478 kg, is
\* not a whole number, and one of thickness 2.
C15_Witness ==
  /\ HasResult
  /\ \E p, q \in SheetsOfResult :
       /\ SheetAt(p).width = 1200 /\ SheetAt(p).length = 300
       /\ optimizationResult.resultsByGroup[p.group].thickness = 3
       /\ weightKg(SheetAt(p), 3) = <<4239, 500>>
       /\ optimizationResult.resultsByGroup[q.group].thickness = 2

-----------------------------------------------------------------------------
(* Properties of the exports *)

\* The NestedParts that the loops over groups, sheets and parts reach no later
\* than the one at p: their number is the place of p in the result.
PlacementRank(p) ==
  Cardinality({q \in Placements :
                 \/ q.group < p.group
                 \/ q.group = p.group /\ q.sheet < p.sheet
                 \/ q.group = p.group /\ q.sheet = p.sheet /\ q.at <= p.at})

\* C16: the CSV export is one header line and then one row for each
\* NestedPart of the result, in the order of the groups, then of the sheets,
\* then of the parts of a sheet; every row has 13 cells: the key, thickness
\* and grade of the part's group, the number, width and length of its sheet,
\* the part's id, width, length, x, y and rotated, and the waste of its sheet.
C16_CsvOneRowPerNestedPart ==
  (download # NoDownload /\ download.name = "nesting_results.csv") =>
    LET rows == download.content
    IN  /\ Len(rows) = 1 + Cardinality(Placements)
        /\ Len(rows[1]) = 13
        /\ rows[1][1] = "Material Group" /\ rows[1][13] = "Sheet Waste %"
        /\ \A p \in Placements :
             LET row    == rows[1 + PlacementRank(p)]
                 group  == optimizationResult.resultsByGroup[p.group]
                 sheet  == SheetAt(p)
                 nested == NestedAt(p)
             IN  /\ Len(row) = 13
                 /\ row[1] = "\"" \o group.materialKey \o "\""
                 /\ row[2] = ToString(group.thickness)
                 /\ row[3] = "\"" \o group.grade \o "\""
                 /\ row[4] = ToString(sheet.sheetNumber)
                 /\ row[5] = ToString(sheet.width)
                 /\ row[6] = ToString(sheet.length)
                 /\ row[7] = "\"" \o nested.partId \o "\""
                 /\ row[8] = ToString(nested.width)
                 /\ row[9] = ToString(nested.length)
                 /\ row[10] = ToString(nested.x)
                 /\ row[11] = ToString(nested.y)
                 /\ row[12] = (IF nested.rotated THEN "TRUE" ELSE "FALSE")
                 /\ row[13] = ToString(sheet.wastePercentage) \o ".00"

\* The CSV of a result with two groups, one of them with two sheets, the
\* first of which holds two parts.
C16_Witness ==
  /\ download # NoDownload /\ download.name = "nesting_results.csv"
  /\ Len(optimizationResult.resultsByGroup) = 2
  /\ \E g \in 1..2 :
       /\ Len(optimizationResult.resultsByGroup[g].layouts) = 2
       /\ Len(optimizationResult.resultsByGroup[g].layouts[1].nestedParts) = 2
  /\ Len(download.content) = 5

\* globalYOffset when the loops of exportToDxf reach sheet p: every earlier
\* sheet has added its length and 500, every earlier group 1000.
RECURSIVE SumOfLengths(_)
SumOfLengths(sheets) ==
  IF sheets = {} THEN 0
  ELSE LET p == CHOOSE q \in sheets : TRUE
       IN  SheetAt(p).length + 500 + SumOfLengths(sheets \ {p})

SheetOffset(p) ==
  SumOfLengths({q \in SheetsOfResult :
                  q.group < p.group \/ (q.group = p.group /\ q.sheet < p.sheet)})
    + 1000 * (p.group - 1)

\* The rectangle from (x, y) with sides w and h on a layer.
IsRectangle(e, x, y, w, h, layer) ==
  /\ e.entity = "LWPOLYLINE" /\ e.layer = layer
  /\ e.vertices = << <<x, y>>, <<x + w, y>>, <<x + w, y + h>>, <<x, y + h>> >>

\* The label of the NestedPart at p: a text at (x + 5, y + 5) from the corner
\* of its sheet.
IsLabelOf(e, p) ==
  /\ e.entity = "TEXT"
  /\ e.x = NestedAt(p).x + 5
  /\ e.y = SheetOffset(p) + NestedAt(p).y + 5
  /\ e.text = NestedAt(p).partId \o " (" \o ToString(EffectiveWidth(NestedAt(p)))
                \o "x" \o ToString(EffectiveLength(NestedAt(p))) \o ")"

\* The sheets have one boundary each, and every NestedPart one rectangle at
\* its (x, y) from the corner of its sheet, with its sides swapped if rotated.
DxfRectangles(entities) ==
  /\ Cardinality({k \in 1..Len(entities) : entities[k].layer = "SHEETS"})
       = Cardinality(SheetsOfResult)
  /\ \A p \in SheetsOfResult :
       \E k \in 1..Len(entities) :
         IsRectangle(entities[k], 0, SheetOffset(p),
                     SheetAt(p).width, SheetAt(p).length, "SHEETS")
  /\ Cardinality({k \in 1..Len(entities) : entities[k].layer = "PARTS"})
       = Cardinality(Placements)
  /\ \A p \in Placements :
       \E k \in 1..Len(entities) :
         IsRectangle(entities[k], NestedAt(p).x, SheetOffset(p) + NestedAt(p).y,
                     EffectiveWidth(NestedAt(p)), EffectiveLength(NestedAt(p)), "PARTS")

\* The smaller side of the rectangle drawn for a NestedPart.
SmallerSide(nested) ==
  IF EffectiveWidth(nested) < EffectiveLength(nested)
  THEN EffectiveWidth(nested) ELSE EffectiveLength(nested)

\* C17, as stated: the DXF export holds one boundary for every sheet and, for
\* every NestedPart, one rectangle and one label.
C17_DxfRectangleAndLabel ==
  (download # NoDownload /\ download.name = "nesting_layout.dxf") =>
    /\ DxfRectangles(download.content)
    /\ \A p \in Placements :
         \E k \in 1..Len(download.content) : IsLabelOf(download.content[k], p)

\* C17: the DXF export holds one boundary (width x length) for every sheet
\* and one rectangle for every NestedPart, at the part's (x, y) from the
\* corner of its sheet and with width and length swapped when it is rotated;
\* a NestedPart has a label exactly when the smaller side of its rectangle is
\* over 30.
C17_DxfLabelWhenLargeEnough ==
  (download # NoDownload /\ download.name = "nesting_layout.dxf") =>
    /\ DxfRectangles(download.content)
    /\ \A p \in Placements :
         (SmallerSide(NestedAt(p)) > 30)
           <=> \E k \in 1..Len(download.content) : IsLabelOf(download.content[k], p)
    /\ Cardinality({k \in 1..Len(download.content) : download.content[k].entity = "TEXT"})
         = Len(optimizationResult.resultsByGroup) + Cardinality(SheetsOfResult)
             + Cardinality({p \in Placements : SmallerSide(NestedAt(p)) > 30})

\* The DXF of a result with a rotated part whose sides differ, drawn on the
\* second sheet of the export, and a part with a side of 30, drawn unlabelled.
C17_Witness ==
  /\ download # NoDownload /\ download.name = "nesting_layout.dxf"
  /\ \E p, q \in Placements :
       /\ NestedAt(p).rotated
       /\ NestedAt(p).width # NestedAt(p).length
       /\ SheetOffset(p) > 0
       /\ SmallerSide(NestedAt(p)) > 30
       /\ SmallerSide(NestedAt(q)) = 30
       /\ \A k \in 1..Len(download.content) : ~IsLabelOf(download.content[k], q)

-----------------------------------------------------------------------------
(* Properties of the prompt *)

\* The prompt runOptimization would build with another algorithm selected.
PromptWith(algorithm) ==
  buildPrompt(parts, [parameters EXCEPT !.algorithm = algorithm])

\* C18: the algorithm selector changes the heuristic instruction only: the
\* prompt of a run and the prompt of the run that differs from it in
\* parameters.algorithm alone hold the same material groups and state the
\* same constraints (weight window and formula, maximum sheet length,
\* candidate widths, variable-length rule), and the parameters they list
\* differ in the algorithm alone; a value that is none of Genetic Algorithm,
\* Simulated Annealing and BZ12 gets the standard instruction, which is none
\* of the instructions of those three.
C18_AlgorithmOnlyInstruction ==
  prompt # NoPrompt =>
    \A a \in Algorithms :
      LET other == PromptWith(a)
      IN  /\ \A f \in DOMAIN prompt \ {"algorithmInstruction", "parameters"} :
               other[f] = prompt[f]
          /\ \A f \in DOMAIN parameters \ {"algorithm"} :
               other.parameters[f] = prompt.parameters[f]
          /\ a \notin {"Genetic Algorithm", "Simulated Annealing", "BZ12"} =>
               /\ other.algorithmInstruction
                    = algorithmInstruction("Standard Simulation")
               /\ other.algorithmInstruction # ""
               /\ \A b \in {"Genetic Algorithm", "Simulated Annealing", "BZ12"} :
                    algorithmInstruction(b) # other.algorithmInstruction

\* The prompt was built for an algorithm that is not an option of the
\* selector, on parts of two groups one of which was sorted.
C18_Witness ==
  /\ prompt # NoPrompt
  /\ parameters.algorithm = "Tabu Search"
  /\ Len(prompt.materialGroups) = 2
  /\ \E g \in 1..2 : Len(prompt.materialGroups[g].parts) = 2
  /\ prompt.algorithmInstruction = PromptWith("Standard Simulation").algorithmInstruction
  /\ prompt.algorithmInstruction # PromptWith("BZ12").algorithmInstruction

-----------------------------------------------------------------------------
(* Properties of a run: the waste of a sheet *)

\* The sum of the areas of the first n NestedParts of a sheet.
RECURSIVE PlacedArea(_, _)
PlacedArea(nestedParts, n) ==
  IF n = 0 THEN 0
  ELSE PlacedArea(nestedParts, n - 1) + nestedParts[n].width * nestedParts[n].length

\* C19: for every sheet of a result, wastePercentage is 1 minus the share of
\* the sheet's area that the placed parts take, that is wastePercentage times
\* the area is the area left free; it lies between 0 and 1 and is 0 exactly
\* when the parts cover the sheet.
C19_WasteIsUnusedShare ==
  HasResult =>
    \A p \in SheetsOfResult :
      LET area   == SheetAt(p).width * SheetAt(p).length
          placed == PlacedArea(SheetAt(p).nestedParts, Len(SheetAt(p).nestedParts))
      IN  /\ SheetAt(p).wastePercentage * area = area - placed
          /\ 0 <= SheetAt(p).wastePercentage
          /\ SheetAt(p).wastePercentage <= 1
          /\ SheetAt(p).wastePercentage = 0 <=> placed = area

-----------------------------------------------------------------------------
(* Properties of the run button *)

\* C20: at most one call of runOptimization is in flight: while a run is
\* loading exactly one call has not settled and no click starts another, when
\* none is loading none is in flight, and the call whose result or error was
\* stored last was the latest one started.
C20_OneRunInFlight ==
  /\ Len(inFlight) <= 1
  /\ isLoading <=> Len(inFlight) = 1
  /\ \A i \in 1..Len(inFlight) : inFlight[i]
  /\ storedByLatest

\* A run on a valid table of three parts is in flight and the button is
\* disabled.
C20_Witness ==
  /\ isLoading /\ runButtonDisabled
  /\ inFlight = <<TRUE>>
  /\ Len(parts) = 3
  /\ ~ENABLED handleRunOptimization

-----------------------------------------------------------------------------
(* Properties of the end of a run *)

\* C21: when every awaited call resolves or rejects, a run that is loading
\* ends: isLoading is false again; and at the step that ends it exactly one of
\* optimizationResult and apiError is not null: the result and no error when
\* the call resolved, the error and no result when it rejected.
C21_RunSettles ==
  /\ isLoading ~> ~isLoading
  /\ [][(isLoading /\ ~isLoading') =>
          \/ optimizationResult' # NullResult /\ apiError' = NoError
          \/ optimizationResult' = NullResult /\ apiError' # NoError]_vars

\* A run on one valid part has ended with a result and no error, and no
\* call is left in flight.
C21_Witness ==
  /\ ~isLoading /\ inFlight = <<>>
  /\ Len(parts) = 1
  /\ HasResult /\ apiError = NoError


\* C22: while a run is in flight neither a result nor an error is stored, so
\* nothing of an earlier run is visible during a later one: the results view
\* and the error banner are both absent; and the results view is rendered only
\* with a result stored and no run in flight.
C22_NothingShownWhileLoading ==
  /\ isLoading => (optimizationResult = NullResult /\ apiError = NoError)
  /\ isLoading => (~resultsShown /\ ~errorShown)
  /\ resultsShown => (optimizationResult # NullResult /\ ~isLoading)

\* A later run is in flight: the result of an earlier run of the same table
\* was stored when it started, and is stored no more.
C22_Witness ==
  /\ isLoading
  /\ previousResult # NullResult
  /\ optimizationResult = NullResult /\ apiError = NoError


-----------------------------------------------------------------------------
(* Properties of a run that fails validation *)

\* C23: when the run button is clicked on a table that fails validation, the
\* step replaces the error map and sets apiError to the validation message and
\* changes nothing else: isLoading stays false, no call is started, and the
\* stored result, if any, stays stored.
C23_FailedValidationFrame ==
  [][(handleRunOptimization /\ ~validateParts(parts)) =>
       /\ errors' = newErrors(parts)
       /\ apiError' = ValidationMessage
       /\ ~isLoading /\ ~isLoading'
       /\ inFlight' = inFlight /\ prompt' = prompt
       /\ optimizationResult' = optimizationResult
       /\ UNCHANGED <<parts, parameters, materialGroups, grouped>>]_vars

\* The result of an earlier run is shown next to the validation message of a
\* later click, with the faulty row marked in the error map.
C23_Witness ==
  /\ resultsShown /\ errorShown
  /\ apiError = ValidationMessage
  /\ ~validateParts(parts) /\ errors = newErrors(parts)


-----------------------------------------------------------------------------
(* Properties of the failures of runOptimization *)

\* C24: runOptimization returns the parsed reply or throws. Whatever the try
\* block throws is rethrown under one of two fixed messages: the API-key
\* message when what was caught is an Error whose message holds "API_KEY", the
\* engine message otherwise; and the step that ends a run either stores one of
\* the two messages and no result (a throw), or stores a reply of the service
\* and no message (a return).
C24_TwoMessagesOrResult ==
  /\ \A failure \in ServiceFailures :
       /\ thrownMessage(failure) \in {ApiKeyMessage, EngineMessage}
       /\ thrownMessage(failure) = ApiKeyMessage
            <=> (failure.instanceOfError /\ failure.includesApiKey)
  /\ [][(isLoading /\ ~isLoading') =>
          \/ /\ apiError' \in {ApiKeyMessage, EngineMessage}
             /\ optimizationResult' = NullResult
          \/ /\ apiError' = NoError
             /\ \E c \in ServiceChoices :
                  optimizationResult' =
                    serviceResult(materialGroups, parameters, c)]_vars

\* A run has ended by a throw under the API-key message: no result is stored.
C24_Witness ==
  /\ grouped /\ ~isLoading
  /\ apiError = ApiKeyMessage
  /\ optimizationResult = NullResult


-----------------------------------------------------------------------------
(* Properties of the sheet offsets of the DXF export *)

\* The places of the sheet boundaries among the entities of a drawing.
SheetEntities(entities) ==
  {k \in 1..Len(entities) :
     entities[k].entity = "LWPOLYLINE" /\ entities[k].layer = "SHEETS"}

\* The y of the first corner of a rectangle, and the y of the opposite one.
Bottom(e) == e.vertices[1][2]

Top(e) == e.vertices[3][2]

\* The place of the boundary of sheet p: the boundaries are written in the
\* order of the groups and, within a group, of the sheets.
SheetEntityOf(entities, p) ==
  CHOOSE k \in SheetEntities(entities) :
    Cardinality({j \in SheetEntities(entities) : j < k})
      = Cardinality({q \in SheetsOfResult :
                       \/ q.group < p.group
                       \/ q.group = p.group /\ q.sheet < p.sheet})

\* C25: in the DXF drawing of a result whose sheet lengths are not negative,
\* a sheet boundary starts above the end of every boundary written before it;
\* from one boundary to the next the start rises by the length of the earlier
\* sheet plus 500, and by 1000 more for each group that ended in between; and
\* the rectangle of every part starts at the start of the boundary of its
\* sheet plus the part's y, and is written before the next boundary.
C25_SheetsDoNotOverlap ==
  (/\ download # NoDownload /\ download.name = "nesting_layout.dxf"
   /\ \A p \in SheetsOfResult : SheetAt(p).length >= 0) =>
    LET entities == download.content
        sheets   == SheetEntities(entities)
    IN  /\ Cardinality(sheets) = Cardinality(SheetsOfResult)
        /\ \A a, b \in sheets :
             a < b => Bottom(entities[b]) > Top(entities[a])
        /\ \A p, q \in SheetsOfResult :
             LET a == SheetEntityOf(entities, p)
                 b == SheetEntityOf(entities, q)
             IN  (a < b /\ \A c \in sheets : ~(a < c /\ c < b)) =>
                   /\ Top(entities[a]) - Bottom(entities[a]) = SheetAt(p).length
                   /\ Bottom(entities[b]) =
                        Bottom(entities[a]) + SheetAt(p).length + 500
                          + 1000 * (q.group - p.group)
        /\ \A p \in Placements :
             LET a == SheetEntityOf(entities, [group |-> p.group, sheet |-> p.sheet])
             IN  \E k \in (a + 1)..Len(entities) :
                   /\ \A c \in sheets : ~(a < c /\ c < k)
                   /\ entities[k].entity = "LWPOLYLINE"
                   /\ entities[k].layer = "PARTS"
                   /\ entities[k].vertices[1][1] = NestedAt(p).x
                   /\ Bottom(entities[k]) = Bottom(entities[a]) + NestedAt(p).y

\* The DXF of a result with two groups and three sheets, the last of them
\* with a part above the bottom of its sheet.
C25_Witness ==
  /\ download # NoDownload /\ download.name = "nesting_layout.dxf"
  /\ Len(optimizationResult.resultsByGroup) = 2
  /\ Cardinality(SheetsOfResult) >= 3
  /\ \E p \in Placements :
       /\ p.group = 2
       /\ NestedAt(p).y > 0
       /\ \E k \in 1..Len(download.content) :
            /\ download.content[k].layer = "PARTS"
            /\ Bottom(download.content[k]) > 1500 + NestedAt(p).y


-----------------------------------------------------------------------------
(* The CSV export and import of the parts table *)

\* In this part of the model a text is the sequence of its characters, and a
\* number is mant * 10^exp with mant not a multiple of ten (zero is 0 * 10^0):
\* the numbers of a part, which a number input takes in any notation.
Zero == [mant |-> 0, exp |-> 0]

NaN == [isNaN |-> TRUE]

DigitChars == <<"0", "1", "2", "3", "4", "5", "6", "7", "8", "9">>

IsDigit(c) == \E d \in 1..10 : DigitChars[d] = c

DigitValue(c) == (CHOOSE d \in 1..10 : DigitChars[d] = c) - 1

\* The decimal digits of a natural number.
RECURSIVE digitsOf(_)
digitsOf(n) ==
  IF n < 10 THEN <<DigitChars[n + 1]>>
  ELSE Append(digitsOf(n \div 10), DigitChars[(n % 10) + 1])

\* The natural number a sequence of digits writes.
RECURSIVE natOf(_)
natOf(digits) ==
  IF digits = <<>> THEN 0
  ELSE 10 * natOf(SubSeq(digits, 1, Len(digits) - 1))
         + DigitValue(digits[Len(digits)])

zeros(n) == [i \in 1..n |-> "0"]

\* Number::toString of the language, which a template literal applies to a
\* number: with k digits and the decimal point after the n-th of them, plain
\* digits when k <= n <= 21, a decimal fraction when -6 < n < k, and the
\* exponent notation otherwise.
numberToString(x) ==
  LET abs    == IF x.mant < 0 THEN -x.mant ELSE x.mant
      digits == digitsOf(abs)
      k      == Len(digits)
      n      == k + x.exp
      e      == n - 1
      expo   == <<"e", IF e < 0 THEN "-" ELSE "+">> \o digitsOf(IF e < 0 THEN -e ELSE e)
      body   == IF abs = 0 THEN <<"0">>
                ELSE IF k <= n /\ n <= 21 THEN digits \o zeros(n - k)
                ELSE IF 0 < n /\ n <= 21
                  THEN SubSeq(digits, 1, n) \o <<".">> \o SubSeq(digits, n + 1, k)
                ELSE IF -6 < n /\ n <= 0 THEN <<"0", ".">> \o zeros(-n) \o digits
                ELSE IF k = 1 THEN digits \o expo
                ELSE <<digits[1], ".">> \o SubSeq(digits, 2, k) \o expo
  IN  IF x.mant < 0 THEN <<"-">> \o body ELSE body

\* The number that a sign, a sequence of digits and a power of ten write.
numberOf(negative, digits, exp) ==
  LET RECURSIVE lead(_)
      lead(i) == IF i <= Len(digits) /\ digits[i] = "0" THEN lead(i + 1) ELSE i
      RECURSIVE trail(_)
      trail(j) == IF j >= 1 /\ digits[j] = "0" THEN trail(j - 1) ELSE j
      first == lead(1)
      last  == trail(Len(digits))
      value == natOf(SubSeq(digits, first, last))
  IN  IF first > Len(digits) THEN Zero
      ELSE [mant |-> IF negative THEN -value ELSE value,
            exp  |-> exp + (Len(digits) - last)]

\* The first place at or after i of a text that holds no digit.
RECURSIVE runEnd(_, _)
runEnd(chars, i) ==
  IF i <= Len(chars) /\ IsDigit(chars[i]) THEN runEnd(chars, i + 1) ELSE i

WhiteSpace == {" ", "\t", "\n", "\r"}

\* String.prototype.trim.
trim(chars) ==
  LET RECURSIVE lead(_)
      lead(i) == IF i <= Len(chars) /\ chars[i] \in WhiteSpace THEN lead(i + 1) ELSE i
      RECURSIVE trail(_)
      trail(j) == IF j >= 1 /\ chars[j] \in WhiteSpace THEN trail(j - 1) ELSE j
  IN  SubSeq(chars, lead(1), trail(Len(chars)))

\* parseFloat: the longest prefix, after leading white space, that is a
\* decimal literal (sign, digits, fraction, exponent); NaN when there is none.
parseFloat(chars) ==
  LET s        == trim(chars)
      signed   == Len(s) >= 1 /\ s[1] \in {"+", "-"}
      negative == Len(s) >= 1 /\ s[1] = "-"
      i0       == IF signed THEN 2 ELSE 1
      i1       == runEnd(s, i0)
      hasDot   == i1 <= Len(s) /\ s[i1] = "."
      i2       == IF hasDot THEN runEnd(s, i1 + 1) ELSE i1
      int      == SubSeq(s, i0, i1 - 1)
      frac     == IF hasDot THEN SubSeq(s, i1 + 1, i2 - 1) ELSE <<>>
      hasE     == i2 <= Len(s) /\ s[i2] \in {"e", "E"}
      eSigned  == hasE /\ i2 + 1 <= Len(s) /\ s[i2 + 1] \in {"+", "-"}
      eNeg     == eSigned /\ s[i2 + 1] = "-"
      j0       == IF eSigned THEN i2 + 2 ELSE i2 + 1
      eDigits  == IF hasE THEN SubSeq(s, j0, runEnd(s, j0) - 1) ELSE <<>>
      e        == IF eNeg THEN -natOf(eDigits) ELSE natOf(eDigits)
  IN  IF int \o frac = <<>> THEN NaN
      ELSE numberOf(negative, int \o frac, e - Len(frac))

\* parseInt without a radix, on a text that has no 0x prefix: the digits
\* that follow the sign, up to the first character that is no digit; NaN when
\* there is none.
parseInt(chars) ==
  LET s        == trim(chars)
      signed   == Len(s) >= 1 /\ s[1] \in {"+", "-"}
      negative == Len(s) >= 1 /\ s[1] = "-"
      i0       == IF signed THEN 2 ELSE 1
      digits   == SubSeq(s, i0, runEnd(s, i0) - 1)
  IN  IF digits = <<>> THEN NaN ELSE numberOf(negative, digits, 0)

\* value || 0 of a number: NaN and zero are falsy.
orZero(value) == IF value = NaN THEN Zero ELSE value

\* String.prototype.split on a one-character separator.
RECURSIVE split(_, _)
split(chars, sep) ==
  IF \A i \in 1..Len(chars) : chars[i] # sep THEN <<chars>>
  ELSE LET i == CHOOSE i \in 1..Len(chars) :
                  chars[i] = sep /\ \A j \in 1..(i - 1) : chars[j] # sep
       IN  <<SubSeq(chars, 1, i - 1)>> \o split(SubSeq(chars, i + 1, Len(chars)), sep)

\* Array.prototype.join.
RECURSIVE join(_, _)
join(texts, sep) ==
  IF texts = <<>> THEN <<>>
  ELSE IF Len(texts) = 1 THEN texts[1]
  ELSE join(SubSeq(texts, 1, Len(texts) - 1), sep) \o sep \o texts[Len(texts)]

\* replace(/"/g, '').
removeQuotes(chars) ==
  LET RECURSIVE keep(_)
      keep(n) == IF n = 0 THEN <<>>
                 ELSE IF chars[n] = "\"" THEN keep(n - 1)
                 ELSE Append(keep(n - 1), chars[n])
  IN  keep(Len(chars))

CSV_HEADER ==
  <<"i", "d", ",", "w", "i", "d", "t", "h", ",", "l", "e", "n", "g", "t",
    "h", ",", "q", "u", "a", "n", "t", "i", "t", "y", ",", "t", "h", "i",
    "c", "k", "n", "e", "s", "s", ",", "g", "r", "a", "d", "e", ",", "p",
    "r", "o", "j", "e", "c", "t", "N", "a", "m", "e", "\n">>

\* The line handleExportCSV writes for a part.
csvLine(p) ==
  p.id \o <<",">> \o numberToString(p.width) \o <<",">> \o
  numberToString(p.length) \o <<",">> \o numberToString(p.quantity) \o <<",">> \o
  numberToString(p.thickness) \o <<",", "\"">> \o p.grade \o <<"\"", ",", "\"">> \o
  p.projectName \o <<"\"">>

\* csvContent of handleExportCSV.
csvContent(partList) ==
  CSV_HEADER \o join([i \in 1..Len(partList) |-> csvLine(partList[i])], <<"\n">>)

\* uuidv4() of an imported row without id.
importedId(n) == <<"u">> \o digitsOf(n)

\* The part handleImportCSV makes of the n-th row it keeps.
importedPart(row, n) ==
  LET values  == split(row, ",")
      cell(k) == IF k <= Len(values) THEN values[k] ELSE <<>>
  IN  [id          |-> IF values[1] = <<>> THEN importedId(n) ELSE values[1],
       width       |-> orZero(parseFloat(cell(2))),
       length      |-> orZero(parseFloat(cell(3))),
       quantity    |-> orZero(parseInt(cell(4))),
       thickness   |-> orZero(parseFloat(cell(5))),
       grade       |-> removeQuotes(cell(6)),
       projectName |-> removeQuotes(cell(7))]

\* importedParts of handleImportCSV: the lines after the first, those that
\* are not blank, each made a part.
importedParts(text) ==
  LET lines == split(text, "\n")
      rows  == SubSeq(lines, 2, Len(lines))
      RECURSIVE kept(_)
      kept(n) == IF n = 0 THEN <<>>
                 ELSE IF trim(rows[n]) = <<>> THEN kept(n - 1)
                 ELSE Append(kept(n - 1), rows[n])
      filtered == kept(Len(rows))
  IN  [n \in 1..Len(filtered) |-> importedPart(filtered[n], n)]

\* The rows of a parts table: plain numbers, decimal fractions, numbers that
\* are written with an exponent, a quantity of 10^21, negative numbers, a
\* grade with a comma in it, the row addRow makes, and a row without id.
CsvRows ==
  { [named |-> TRUE, width |-> [mant |-> 1, exp |-> 3], length |-> [mant |-> 1, exp |-> 2],
     quantity |-> [mant |-> 1, exp |-> 0], thickness |-> [mant |-> 2, exp |-> 0],
     grade |-> <<"S", "S", "4", "0", "0">>, projectName |-> <<"A">>],
    [named |-> TRUE, width |-> [mant |-> 125, exp |-> -1], length |-> [mant |-> 5, exp |-> -1],
     quantity |-> [mant |-> 12, exp |-> 0], thickness |-> [mant |-> 15, exp |-> -1],
     grade |-> <<"A", "3", "6">>, projectName |-> <<"B", " ", "1">>],
    [named |-> TRUE, width |-> [mant |-> 1, exp |-> 21], length |-> [mant |-> 15, exp |-> -8],
     quantity |-> [mant |-> 1, exp |-> 20], thickness |-> [mant |-> 1, exp |-> -7],
     grade |-> <<"A", "3", "6">>, projectName |-> <<"B">>],
    [named |-> TRUE, width |-> [mant |-> 1, exp |-> 3], length |-> [mant |-> 1, exp |-> 2],
     quantity |-> [mant |-> 1, exp |-> 21], thickness |-> [mant |-> 2, exp |-> 0],
     grade |-> <<"A", "3", "6">>, projectName |-> <<"B">>],
    [named |-> TRUE, width |-> [mant |-> -5, exp |-> 0], length |-> [mant |-> 1, exp |-> 2],
     quantity |-> [mant |-> -3, exp |-> 0], thickness |-> [mant |-> 2, exp |-> 0],
     grade |-> <<"A", "3", "6">>, projectName |-> <<"B">>],
    [named |-> TRUE, width |-> [mant |-> 1, exp |-> 3], length |-> [mant |-> 1, exp |-> 2],
     quantity |-> [mant |-> 1, exp |-> 0], thickness |-> [mant |-> 2, exp |-> 0],
     grade |-> <<"A", ",", "B">>, projectName |-> <<"B">>],
    [named |-> TRUE, width |-> Zero, length |-> Zero,
     quantity |-> [mant |-> 1, exp |-> 0], thickness |-> Zero,
     grade |-> <<>>, projectName |-> <<>>],
    [named |-> FALSE, width |-> [mant |-> 1, exp |-> 3], length |-> [mant |-> 1, exp |-> 2],
     quantity |-> [mant |-> 1, exp |-> 0], thickness |-> [mant |-> 2, exp |-> 0],
     grade |-> <<"S", "S", "4", "0", "0">>, projectName |-> <<"A">>] }

CsvPart(i, row) ==
  [id |-> IF row.named THEN <<"p">> \o digitsOf(i) ELSE <<>>,
   width |-> row.width, length |-> row.length, quantity |-> row.quantity,
   thickness |-> row.thickness, grade |-> row.grade,
   projectName |-> row.projectName]

CsvPartLists ==
  UNION { { [i \in 1..n |-> CsvPart(i, f[i])] : f \in [1..n -> CsvRows] } : n \in 0..MaxParts }

\* The parts table before anything is run, exported or imported.
InitCsv ==
  /\ parts \in CsvPartLists
  /\ parameters = initialParameters(100)
  /\ errors = <<>>
  /\ optimizationResult = NullResult
  /\ isLoading = FALSE
  /\ apiError = NoError
  /\ materialGroups = <<>>
  /\ grouped = FALSE
  /\ prompt = NoPrompt
  /\ inFlight = <<>>
  /\ storedByLatest = TRUE
  /\ previousResult = NullResult
  /\ download = NoDownload

\* The Export button of the parts table: the file parts_data.csv.
handleExportCSV ==
  /\ download' = [name |-> "parts_data.csv", content |-> csvContent(parts)]
  /\ UNCHANGED <<parts, parameters, errors, optimizationResult, isLoading,
                 apiError, materialGroups, grouped, prompt, inFlight,
                 storedByLatest, previousResult>>

\* The Import button of the parts table, given the file that was exported
\* last: setParts(importedParts).
handleImportCSV ==
  /\ download # NoDownload /\ download.name = "parts_data.csv"
  /\ parts' = importedParts(download.content)
  /\ UNCHANGED <<parameters, errors, optimizationResult, isLoading, apiError,
                 materialGroups, grouped, prompt, inFlight, storedByLatest,
                 previousResult, download>>

NextCsv ==
  \/ handleExportCSV
  \/ handleImportCSV

SpecCsv == InitCsv /\ [][NextCsv]_vars

-----------------------------------------------------------------------------
(* Properties of the CSV round trip of the parts table *)

\* The part lists the round trip is stated for: no id is empty, every number
\* is other than zero, every quantity is an integer, and no id, grade or
\* project name holds a comma, a double quote or a line break.
RoundTripInputs(partList) ==
  \A i \in 1..Len(partList) :
    LET p == partList[i]
    IN  /\ p.id # <<>>
        /\ \A x \in {p.width, p.length, p.quantity, p.thickness} : x.mant # 0
        /\ p.quantity.exp >= 0
        /\ \A t \in {p.id, p.grade, p.projectName} :
             \A k \in 1..Len(t) : t[k] \notin {",", "\"", "\n", "\r"}

\* C26: importing the text that the table's CSV export has just written of a
\* part list of that kind yields a part list equal to the exported one, field
\* by field and in the same order.
C26_CsvRoundTrip ==
  [][(/\ handleImportCSV
      /\ download.content = csvContent(parts)
      /\ RoundTripInputs(parts)) => parts' = parts]_vars

====
